---------------------------- MODULE Spec2Model ----------------------------
(***************************************************************************)
(* Model of the GeoParquet downloader plugin for QGIS.                     *)
(*                                                                         *)
(*   src/qgis_plugin_gpq_downloader.py  Worker ("plugin" implementation),  *)
(*                                      QgisPluginGeoParquet (main thread) *)
(*   src/gpq_downloader/utils.py        Worker ("utils" implementation)    *)
(*   both files                         ValidationWorker, the bbox         *)
(*                                      detector, which no code of the     *)
(*                                      plugin constructs                  *)
(*                                                                         *)
(* A Worker's run() is cut into steps at every engine call, every read of  *)
(* self.killed and every signal emission, so that kill(), which the main   *)
(* thread calls, can fall between any two of them.  A statement of the     *)
(* form "if not self.killed: self.x.emit()" is one step.  Every engine     *)
(* call (duckdb.connect, conn.execute, conn.commit) and the coordinate     *)
(* transform may raise; DROP TABLE IF EXISTS and conn.close() of the       *)
(* finally block are taken to succeed.  progress and percent emissions     *)
(* only relabel the progress dialog and are left out.                      *)
(*                                                                         *)
(* Signals of a worker created by process_download_queue are delivered to  *)
(* the main thread through its event queue, in emission order.  The modal  *)
(* dialogs of the main thread are answered within the handler that opens   *)
(* them.  A signal already queued is delivered even after the main thread  *)
(* has dropped its reference to the worker that emitted it.                *)
(*                                                                         *)
(* Five specifications: Spec (main thread and its workers), SpecWorker     *)
(* (one Worker.run with kill() at any moment), SpecValidation              *)
(* (ValidationWorker.run), SpecEstimate (estimate_file_size on its own)    *)
(* and SpecDialog (DataSourceDialog up to its acceptance).                 *)
(***************************************************************************)
EXTENDS Integers, Sequences, FiniteSets, TLC

\* Bounds of the model.
MaxRuns == 2        \* times the user triggers the toolbar action
MaxQueue == 2       \* items of one download queue
MaxWorkers == 2     \* Worker objects created over one behaviour

\* estimated_size > 4096 (utils.py, Worker.run)
SizeWarningThresholdMB == 4096

\* sample_size = min(100, row_count) (utils.py, estimate_file_size)
SampleLimit == 100

\* collection_overhead = 50
CollectionOverhead == 50

\* total_estimated_bytes / (1024 * 1024)
Kilo == 1024
BytesPerMB == Kilo * Kilo

\* avg_feature_size when AVG(...) is NULL: falsy in "if avg_feature_size:"
NoAverage == 0

VARIABLES
    workers,        \* id -> state of that Worker object and of its run()
    events,         \* signals queued for the main thread, oldest first
    worker,         \* QgisPluginGeoParquet.worker (0: None)
    worker_thread,  \* QgisPluginGeoParquet.worker_thread (0: None)
    progress_open,  \* a progress dialog is shown
    main,           \* position of the main thread
    closure,        \* id -> remaining_queue captured by the lambda connected
                    \*       to that worker's finished, whether it ran, and
                    \*       whether the user cancelled that worker's download
    runs,           \* times run() was triggered so far
    reserved,       \* queue items handed to process_download_queue by run()
    cancelled,      \* the user pressed Cancel on a progress dialog
    crashed,        \* the process was aborted by the GUI toolkit
    validation,     \* state of a ValidationWorker object and of its run()
    estimate,       \* one call of estimate_file_size on its own
    dialog          \* state of a DataSourceDialog

vars == <<workers, events, worker, worker_thread, progress_open, main,
          closure, runs, reserved, cancelled, crashed, validation,
                   estimate, dialog>>

\* all but workers and events
mainVars == <<worker, worker_thread, progress_open, main, closure, runs,
              reserved, cancelled, crashed, validation,
                   estimate, dialog>>

\* all but validation
downloadVars == <<workers, events, worker, worker_thread, progress_open, main,
                  closure, runs, reserved, cancelled, crashed, estimate, dialog>>

Ids == 1..MaxWorkers

Impls == {"plugin", "utils"}

(***************************************************************************)
(* Output files.  Every test run() makes on self.output_file looks at the  *)
(* text after the last dot only, so a file is modelled by that text, its   *)
(* letter case kept.                                                       *)
(***************************************************************************)
Files == {"parquet", "PARQUET", "duckdb", "gpkg", "GPKG", "fgb", "geojson",
          "GEOJSON", "xyz"}

\* str.lower() on the extension text, and on one piece of a text
Lower(f) ==
    CASE f = "PARQUET" -> "parquet"
      [] f = "GPKG" -> "gpkg"
      [] f = "GEOJSON" -> "geojson"
      [] f = "BBOX" -> "bbox"
      [] f = "STRUCT" -> "struct"
      [] f = "MAP" -> "map"
      [] f = "UTINYINT" -> "utinyint"
      [] OTHER -> f

\* self.output_file.endswith("." + ext): case-sensitive
EndsWith(f, ext) == f = ext

\* a destination test that takes no file for a database
IsDuckDBFileNever(f) == FALSE

\* self.output_file.lower().endswith(".duckdb")
IsDuckDBFile(f) == EndsWith(Lower(f), "duckdb")

\* file_extension = self.output_file.lower().split(".")[-1]
FileExtension(f) == Lower(f)

\* The destination formats of the product (spec, external interfaces).
SupportedExtensions == {"parquet", "duckdb", "gpkg", "fgb", "geojson"}

\* Row counts a materialized result can have: none, some.
RowCounts == {0, 10000}

\* Values of AVG(LENGTH(feature text)) over the sample, in bytes: NULL, a
\* small feature, and the two sizes on either side of the warning threshold
\* for 10000 rows.
AvgFeatureSizes == {NoAverage, 200, 429495, 429496}

\* The query of estimate_file_size that raises, if any.
EstimateFailures == {"none", "count", "describe", "sample"}

\* str(e) of an engine exception either holds "No data found" or not.
EngineErrors == {"engine", "nodata"}

-----------------------------------------------------------------------------
(***************************************************************************)
(* Texts.  A URL, a column name and a column type are sequences of pieces  *)
(* of text, cut so that every text the code searches for ("overture",      *)
(* "names", "STRUCT", "[]", a preset URL) is a run of whole pieces.        *)
(***************************************************************************)

\* Python None, different from every text of the model
None == "<None>"

\* needle in text
Contains(text, needle) ==
    \E i \in 0..(Len(text) - Len(needle)) :
        SubSeq(text, i + 1, i + Len(needle)) = needle

\* str.upper() on one piece
Upper(p) ==
    CASE p = "struct" -> "STRUCT"
      [] p = "map" -> "MAP"
      [] p = "utinyint" -> "UTINYINT"
      [] p = "bbox" -> "BBOX"
      [] OTHER -> p

\* text.upper(), text.lower()
UpperText(text) == [i \in 1..Len(text) |-> Upper(text[i])]
LowerText(text) == [i \in 1..Len(text) |-> Lower(text[i])]

\* url_template.split("{")[0]
SplitBrace0(text) ==
    IF \E i \in 1..Len(text) : text[i] = "{subtype}"
    THEN SubSeq(text, 1,
             (CHOOSE i \in 1..Len(text) :
                 /\ text[i] = "{subtype}"
                 /\ \A j \in 1..(i - 1) : text[j] # "{subtype}") - 1)
    ELSE text

\* url_template.format(subtype=s)
format(text, s) ==
    [i \in 1..Len(text) |-> IF text[i] = "{subtype}" THEN s ELSE text[i]]

\* The release prefix shared by the Overture templates.
OverturePrefix ==
    <<"s3://", "overture", "maps-us-west-2/release/2025-01-22.0/theme=">>

SourceCoopBucket == <<"s3://", "us-west-2.opendata.source.coop/">>

\* 20-106: the catalogue, in iteration order; a display_name is stood for by
\* the position of its dataset, which it names uniquely; info_url and
\* subtypes are not read by the code modelled here.
PRESET_DATASETS == <<
    [url_template |-> OverturePrefix \o <<"buildings/type=building/*">>,
     needs_validation |-> FALSE],
    [url_template |-> OverturePrefix \o <<"places/type=place/*">>,
     needs_validation |-> FALSE],
    [url_template |-> OverturePrefix \o <<"transportation/type=segment/*">>,
     needs_validation |-> FALSE],
    [url_template |-> OverturePrefix \o <<"addresses/type=*/*">>,
     needs_validation |-> FALSE],
    [url_template |-> OverturePrefix \o <<"base/type=", "{subtype}", "/*">>,
     needs_validation |-> FALSE],
    [url_template |-> OverturePrefix \o <<"divisions/type=division_area/*">>,
     needs_validation |-> FALSE],
    [url |-> <<"https://", "data.source.coop/planet/eu-field-boundaries/field_boundaries.parquet">>,
     needs_validation |-> FALSE],
    [url |-> <<"https://", "data.source.coop/fiboa/us-usda-cropland/us_usda_cropland.parquet">>,
     needs_validation |-> FALSE],
    [url |-> <<"https://", "data.source.coop/fiboa/us-ca-scm/us_ca_scm.parquet">>,
     needs_validation |-> FALSE],
    [url |-> SourceCoopBucket \o <<"vida/google-microsoft-osm-open-buildings/geoparquet/by_country/*/*.parquet">>,
     needs_validation |-> FALSE],
    [url |-> SourceCoopBucket \o <<"wherobots/usa-structures/geoparquet/*.parquet">>,
     needs_validation |-> FALSE],
    [url |-> SourceCoopBucket \o <<"fused/fsq-os-places/2025-01-10/places/*.parquet">>,
     needs_validation |-> FALSE],
    [url |-> <<"https://", "data.source.coop/cholmes/nhd/NHDFlowline.parquet">>,
     needs_validation |-> TRUE],
    [url |-> <<"hf://", "datasets/foursquare/fsq-os-places/release/dt=2025-01-10/places/parquet/*.parquet">>,
     needs_validation |-> FALSE] >>

\* a detector that trusts no preset
NeedsValidationAlways(dataset_url) == TRUE

\* plugin 428-439 / utils 445-462: needs_validation, from the first preset
\* whose URL, or whose template up to its placeholder, occurs in dataset_url
RECURSIVE needs_validation_in(_, _)
needs_validation_in(presets, dataset_url) ==
    IF presets = <<>> THEN TRUE
    ELSE LET dataset == Head(presets)
         IN IF /\ "url" \in DOMAIN dataset
               /\ Contains(dataset_url, dataset.url)
            THEN dataset.needs_validation
            ELSE IF /\ "url_template" \in DOMAIN dataset
                    /\ Contains(dataset_url, SplitBrace0(dataset.url_template))
            THEN dataset.needs_validation
            ELSE needs_validation_in(Tail(presets), dataset_url)

needs_validation(dataset_url) ==
    needs_validation_in(PRESET_DATASETS, dataset_url)

-----------------------------------------------------------------------------
(***************************************************************************)
(* What the engine reads at a dataset URL: the rows of DESCRIBE SELECT *   *)
(* FROM read_parquet(url) and the rows of parquet_kv_metadata(url).        *)
(***************************************************************************)

\* JSON values
Null == [t |-> "null"]
Str(s) == [t |-> "string", s |-> s]
Arr(items) == [t |-> "array", items |-> items]
Obj(members) == [t |-> "object", members |-> members]

\* the path '$.columns.geometry.covering.bbox.xmin[0]' (plugin 359, utils 368)
BboxColumnPath ==
    <<[key |-> "columns"], [key |-> "geometry"], [key |-> "covering"],
      [key |-> "bbox"], [key |-> "xmin"], [index |-> 0]>>

\* json -> path of the engine: NULL where the path leaves the document
RECURSIVE JsonExtract(_, _)
JsonExtract(v, path) ==
    IF path = <<>> THEN v
    ELSE LET p == Head(path)
         IN IF "key" \in DOMAIN p
            THEN IF v.t = "object" /\ p.key \in DOMAIN v.members
                 THEN JsonExtract(v.members[p.key], Tail(path))
                 ELSE Null
            ELSE IF v.t = "array" /\ (p.index + 1) \in DOMAIN v.items
                 THEN JsonExtract(v.items[p.index + 1], Tail(path))
                 ELSE Null

\* result[0] of fetchone() for a value that is not NULL: its JSON text, a
\* string in its double quotes
JsonText(v) ==
    CASE v.t = "string" -> <<"\"", v.s, "\"">>
      [] v.t = "array" -> <<"[", "]">>
      [] OTHER -> <<"{", "}">>

\* text.strip('"'), joined to one piece
StripQuotes(text) ==
    LET first == IF text # <<>> /\ Head(text) = "\"" THEN 2 ELSE 1
        last == IF Len(text) >= first /\ text[Len(text)] = "\""
                THEN Len(text) - 1 ELSE Len(text)
        inner == SubSeq(text, first, last)
    IN IF inner = <<>> THEN ""
       ELSE IF Len(inner) = 1 THEN inner[1]
       ELSE "[...]"

\* a "geo" document whose geometry column geom is covered by column c
GeoDoc(geom, c) ==
    Obj([version |-> Str("1.1.0"),
         primary_column |-> Str(geom),
         columns |-> Obj(geom :> Obj([
             encoding |-> Str("WKB"),
             covering |-> Obj([bbox |-> Obj([
                 xmin |-> Arr(<<Str(c), Str("xmin")>>),
                 ymin |-> Arr(<<Str(c), Str("ymin")>>),
                 xmax |-> Arr(<<Str(c), Str("xmax")>>),
                 ymax |-> Arr(<<Str(c), Str("ymax")>>)])])]))])

\* a "geo" document of GeoParquet 1.0: no covering
GeoDocNoCovering ==
    Obj([version |-> Str("1.0.0"),
         primary_column |-> Str("geometry"),
         columns |-> Obj([geometry |-> Obj([encoding |-> Str("WKB")])])])

\* A metadata value: whether value.decode() succeeds, whether the text holds
\* a quote that ends the SQL literal it is pasted into, whether it is
\* well-formed JSON, and the document it then is.
Blob(decodes, quote, well_formed, doc) ==
    [decodes |-> decodes, quote |-> quote, well_formed |-> well_formed,
     doc |-> doc]

GeoBlob(doc) == Blob(TRUE, FALSE, TRUE, doc)
UndecodableBlob == Blob(FALSE, FALSE, FALSE, Null)
QuoteBlob == Blob(TRUE, TRUE, TRUE, GeoDocNoCovering)
MalformedBlob == Blob(TRUE, FALSE, FALSE, Null)

\* Column types as DESCRIBE prints them.
VARCHAR == <<"VARCHAR">>
VARCHAR_LIST == <<"VARCHAR", "[]">>
UTINYINT == <<"UTINYINT">>
GEOMETRY == <<"GEOMETRY">>
STRUCT_BBOX == <<"STRUCT", "(xmin FLOAT, xmax FLOAT, ymin FLOAT, ymax FLOAT)">>
STRUCT_NAMES == <<"STRUCT", "(\"primary\" VARCHAR)">>
STRUCT_LIST == <<"STRUCT", "(dataset VARCHAR)", "[]">>
MAP_TAGS == <<"MAP", "(VARCHAR, VARCHAR)">>

Row(col_name, col_type) == [col_name |-> col_name, col_type |-> col_type]

CustomUrl == <<"https://", "example.com/data.parquet">>
CustomOvertureUrl == <<"https://", "example.com/", "overture", "-extract.parquet">>

\* The remote files of the model, by name.
Remote(d) ==
    CASE d = "buildings" ->
            [url |-> PRESET_DATASETS[1].url_template,
             schema |-> <<Row(<<"id">>, VARCHAR), Row(<<"names">>, STRUCT_NAMES),
                          Row(<<"sources">>, STRUCT_LIST),
                          Row(<<"num_floors">>, UTINYINT),
                          Row(<<"bbox">>, STRUCT_BBOX),
                          Row(<<"geometry">>, GEOMETRY)>>,
             kv |-> <<[key |-> "geo", value |-> GeoBlob(GeoDoc("geometry", "bbox"))]>>]
      [] d = "addresses" ->
            [url |-> PRESET_DATASETS[4].url_template,
             schema |-> <<Row(<<"id">>, VARCHAR), Row(<<"street">>, VARCHAR),
                          Row(<<"bbox">>, STRUCT_BBOX),
                          Row(<<"geometry">>, GEOMETRY)>>,
             kv |-> <<[key |-> "geo", value |-> GeoBlob(GeoDoc("geometry", "bbox"))]>>]
      [] d = "water" ->
            [url |-> format(PRESET_DATASETS[5].url_template, "water"),
             schema |-> <<Row(<<"id">>, VARCHAR), Row(<<"names">>, STRUCT_NAMES),
                          Row(<<"bbox">>, STRUCT_BBOX),
                          Row(<<"geometry">>, GEOMETRY)>>,
             kv |-> <<[key |-> "geo", value |-> GeoBlob(GeoDoc("geometry", "bbox"))]>>]
      [] d = "nhd" ->
            [url |-> PRESET_DATASETS[13].url,
             schema |-> <<Row(<<"id">>, VARCHAR), Row(<<"foo">>, STRUCT_BBOX),
                          Row(<<"geometry">>, GEOMETRY)>>,
             kv |-> <<[key |-> "other", value |-> MalformedBlob],
                      [key |-> "geo", value |-> GeoBlob(GeoDoc("geometry", "foo"))]>>]
      [] d = "tags" ->
            [url |-> CustomUrl,
             schema |-> <<Row(<<"id">>, VARCHAR), Row(<<"tags">>, MAP_TAGS),
                          Row(<<"levels">>, VARCHAR_LIST),
                          Row(<<"geometry">>, GEOMETRY)>>,
             kv |-> <<>>]
      [] d = "geom" ->
            [url |-> CustomUrl,
             schema |-> <<Row(<<"id">>, VARCHAR), Row(<<"foo">>, STRUCT_BBOX),
                          Row(<<"geom">>, GEOMETRY)>>,
             kv |-> <<[key |-> "geo", value |-> GeoBlob(GeoDoc("geom", "foo"))]>>]
      [] d = "malformed" ->
            [url |-> CustomUrl,
             schema |-> <<Row(<<"id">>, VARCHAR), Row(<<"geometry">>, GEOMETRY)>>,
             kv |-> <<[key |-> "geo", value |-> MalformedBlob]>>]
      [] d = "undecodable" ->
            [url |-> CustomUrl,
             schema |-> <<Row(<<"id">>, VARCHAR), Row(<<"geometry">>, GEOMETRY)>>,
             kv |-> <<[key |-> "geo", value |-> UndecodableBlob]>>]
      [] d = "quote" ->
            [url |-> CustomUrl,
             schema |-> <<Row(<<"id">>, VARCHAR), Row(<<"geometry">>, GEOMETRY)>>,
             kv |-> <<[key |-> "geo", value |-> QuoteBlob]>>]
      [] d = "BBOX" ->
            [url |-> CustomUrl,
             schema |-> <<Row(<<"id">>, VARCHAR), Row(<<"BBOX">>, STRUCT_BBOX),
                          Row(<<"geometry">>, GEOMETRY)>>,
             kv |-> <<[key |-> "geo", value |-> GeoBlob(GeoDoc("geometry", "BBOX"))]>>]
      [] d = "custom_bbox" ->
            [url |-> CustomUrl,
             schema |-> <<Row(<<"id">>, VARCHAR), Row(<<"bbox">>, STRUCT_BBOX),
                          Row(<<"geometry">>, GEOMETRY)>>,
             kv |-> <<[key |-> "geo", value |-> GeoBlob(GeoDoc("geometry", "bbox"))]>>]
      [] d = "bbox_text" ->
            [url |-> CustomUrl,
             schema |-> <<Row(<<"id">>, VARCHAR), Row(<<"bbox">>, VARCHAR),
                          Row(<<"geometry">>, GEOMETRY)>>,
             kv |-> <<[key |-> "geo", value |-> GeoBlob(GeoDocNoCovering)]>>]
      [] d = "twice" ->
            [url |-> CustomUrl,
             schema |-> <<Row(<<"id">>, VARCHAR), Row(<<"foo">>, STRUCT_BBOX),
                          Row(<<"geometry">>, GEOMETRY)>>,
             kv |-> <<[key |-> "geo", value |-> MalformedBlob],
                      [key |-> "geo", value |-> GeoBlob(GeoDoc("geometry", "foo"))]>>]
      [] OTHER ->
            [url |-> CustomOvertureUrl,
             schema |-> <<Row(<<"id">>, VARCHAR),
                          Row(<<"file", "names">>, VARCHAR_LIST),
                          Row(<<"geometry">>, GEOMETRY)>>,
             kv |-> <<>>]

Remotes == {"buildings", "addresses", "water", "nhd", "tags", "geom",
            "malformed", "undecodable", "quote", "BBOX", "custom_bbox",
            "bbox_text", "twice", "extract"}

-----------------------------------------------------------------------------
(***************************************************************************)
(* The query text of Worker.run, kept as its structure: a SELECT list is   *)
(* a sequence of items, a WHERE clause is either a conjunction of BETWEEN  *)
(* tests or ST_Intersects against a ring of points.  Numbers stand for the *)
(* decimal text Python prints for them.                                    *)
(***************************************************************************)

\* QgsRectangle, normalized
Rect(x0, y0, x1, y1) ==
    [xMinimum |-> x0, yMinimum |-> y0, xMaximum |-> x1, yMaximum |-> y1]

\* Map canvas extents, and what transformBoundingBox may hand back.
Rectangles == {Rect(0, 0, 10, 10), Rect(-5, 2, 3, 2)}

\* Map canvas CRSs.
CRSs == {"EPSG:4326", "EPSG:3857"}

\* utils 20-22: source_crs != dest_crs, dest_crs being EPSG:4326
Transforms(source_crs) == source_crs # "EPSG:4326"

\* a function that hands every extent to the coordinate transform
TransformAlways(extent, source_crs) == Rectangles

\* utils 9-25: transform_bbox_to_4326; the set of rectangles it may return,
\* the transform of the host application being any rectangle
transform_bbox_to_4326(extent, source_crs) ==
    IF Transforms(source_crs) THEN Rectangles ELSE {extent}

\* validation_results dictionaries a Worker is constructed with: the result
\* of ValidationWorker (bbox_column "bbox", or a name from the metadata),
\* the dictionary of show_bbox_warning (plugin 748), and dictionaries whose
\* bbox_column is None or empty
ValidationResults ==
    {[has_bbox |-> TRUE, bbox_column |-> "bbox"],
     [has_bbox |-> TRUE, bbox_column |-> "foo"],
     [has_bbox |-> FALSE, schema |-> None],
     [has_bbox |-> FALSE, bbox_column |-> None],
     [has_bbox |-> FALSE, bbox_column |-> ""]}

\* dict.get(key)
Get(dict, key) == IF key \in DOMAIN dict THEN dict[key] ELSE None

\* the truth value of a text or None
Truthy(x) == x # None /\ x # ""

\* SELECT *
Star == [fn |-> "*", col |-> <<>>, alias |-> <<>>]

\* "names"."primary" as name
NamePrimary == [fn |-> "primary", col |-> <<"names">>, alias |-> <<"name">>]

\* fn("col") AS "col"; a bare "col" when fn is empty
Item(fn, col_name) == [fn |-> fn, col |-> col_name, alias |-> col_name]

\* a builder that leaves UTINYINT columns as they are
ColumnItemWithoutCast(row) ==
    IF \/ Contains(UpperText(row.col_type), <<"STRUCT">>)
       \/ Contains(UpperText(row.col_type), <<"MAP">>)
    THEN Item("TO_JSON", row.col_name)
    ELSE IF Contains(row.col_type, <<"[]">>)
    THEN Item("array_to_string", row.col_name)
    ELSE Item("", row.col_name)

\* utils 306-321: one turn of the loop of process_schema_columns
ColumnItem(row) ==
    IF \/ Contains(UpperText(row.col_type), <<"STRUCT">>)
       \/ Contains(UpperText(row.col_type), <<"MAP">>)
    THEN Item("TO_JSON", row.col_name)
    ELSE IF Contains(row.col_type, <<"[]">>)
    THEN Item("array_to_string", row.col_name)
    ELSE IF UpperText(row.col_type) = <<"UTINYINT">>
    THEN Item("CAST AS INTEGER", row.col_name)
    ELSE Item("", row.col_name)

\* utils 302-322: process_schema_columns
process_schema_columns(schema_result) ==
    [k \in 1..Len(schema_result) |-> ColumnItem(schema_result[k])]

\* plugin 197-210: one turn of the inline loop
InlineColumnItem(row) ==
    IF \/ Contains(UpperText(row.col_type), <<"STRUCT">>)
       \/ Contains(UpperText(row.col_type), <<"MAP">>)
    THEN Item("TO_JSON", row.col_name)
    ELSE IF Contains(row.col_type, <<"[]">>)
    THEN Item("array_to_string", row.col_name)
    ELSE IF UpperText(row.col_type) = <<"UTINYINT">>
    THEN Item("CAST AS INTEGER", row.col_name)
    ELSE Item("", row.col_name)

\* plugin 195-210: columns
InlineColumns(schema_result) ==
    [k \in 1..Len(schema_result) |-> InlineColumnItem(schema_result[k])]

\* plugin 213: has_names_column = any('names' in row[0] for row in schema_result)
has_names_column(schema_result) ==
    \E k \in 1..Len(schema_result) :
        Contains(schema_result[k].col_name, <<"names">>)

\* plugin 192-217: select_query
PluginSelectQuery(output_file, dataset_url, schema_result) ==
    IF ~EndsWith(output_file, "parquet")
    THEN IF /\ Contains(dataset_url, <<"overture">>)
            /\ has_names_column(schema_result)
         THEN <<NamePrimary>> \o InlineColumns(schema_result)
         ELSE InlineColumns(schema_result)
    ELSE <<Star>>

\* utils 122-133: select_query
UtilsSelectQuery(output_file, dataset_url, schema_result) ==
    IF ~EndsWith(output_file, "parquet")
    THEN IF Contains(dataset_url, <<"overture">>)
         THEN <<NamePrimary>> \o process_schema_columns(schema_result)
         ELSE process_schema_columns(schema_result)
    ELSE <<Star>>

SelectQuery(impl, output_file, dataset_url, schema_result) ==
    IF impl = "plugin"
    THEN PluginSelectQuery(output_file, dataset_url, schema_result)
    ELSE UtilsSelectQuery(output_file, dataset_url, schema_result)

\* "c".field BETWEEN low AND high
Between(c, field, low, high) ==
    [column |-> c, field |-> field, low |-> low, high |-> high]

\* a range filter that tests the maxima against the extent as well
WhereClauseWithMaxima(bbox_column, bbox) ==
    [pred |-> "BETWEEN",
     tests |-> <<Between(bbox_column, "xmin", bbox.xMinimum, bbox.xMaximum),
                 Between(bbox_column, "ymin", bbox.yMinimum, bbox.yMaximum),
                 Between(bbox_column, "xmax", bbox.xMinimum, bbox.xMaximum),
                 Between(bbox_column, "ymax", bbox.yMinimum, bbox.yMaximum)>>,
     ring |-> <<>>]

\* a fallback whose ring is left open
FallbackWithOpenRing(bbox) ==
    [pred |-> "ST_Intersects",
     tests |-> <<>>,
     ring |-> <<<<bbox.xMinimum, bbox.yMinimum>>,
                <<bbox.xMaximum, bbox.yMinimum>>,
                <<bbox.xMaximum, bbox.yMaximum>>,
                <<bbox.xMinimum, bbox.yMaximum>>>>]

\* plugin 223-226 / utils 139-142: the range filter on the bbox column
RangeWhereClause(bbox_column, bbox) ==
    [pred |-> "BETWEEN",
     tests |-> <<Between(bbox_column, "xmin", bbox.xMinimum, bbox.xMaximum),
                 Between(bbox_column, "ymin", bbox.yMinimum, bbox.yMaximum)>>,
     ring |-> <<>>]

\* plugin 229-238 / utils 145-154: ST_Intersects(geometry, POLYGON((...)))
FallbackWhereClause(bbox) ==
    [pred |-> "ST_Intersects",
     tests |-> <<>>,
     ring |-> <<<<bbox.xMinimum, bbox.yMinimum>>,
                <<bbox.xMaximum, bbox.yMinimum>>,
                <<bbox.xMaximum, bbox.yMaximum>>,
                <<bbox.xMinimum, bbox.yMaximum>>,
                <<bbox.xMinimum, bbox.yMinimum>>>>]

\* plugin 220-238 / utils 136-154: where_clause
WhereClause(validation_results, bbox) ==
    LET bbox_column == Get(validation_results, "bbox_column")
    IN IF Truthy(bbox_column)
       THEN RangeWhereClause(bbox_column, bbox)
       ELSE FallbackWhereClause(bbox)

-----------------------------------------------------------------------------
(* Worker *)

NoWorker ==
    [impl |-> "plugin", pc |-> "none", output_file |-> "parquet",
     connected |-> FALSE, killed |-> FALSE, size_warning_accepted |-> FALSE,
     conn |-> "none", on_file |-> FALSE, opened |-> 0, closed |-> 0,
     table_bound |-> FALSE, table |-> FALSE, row_count |-> -1,
     estimated_size |-> [whole |-> -1, part |-> 0], exc |-> "none", raised |-> FALSE,
     format_options |-> [driver |-> "none", srs |-> "none"], commits |-> 0,
     transforms |-> -1,
     emitted |-> <<>>, copied |-> 0, copy_killed |-> FALSE,
     dest_written |-> FALSE, written_rows |-> -1, dropped |-> FALSE,
     closed_with_table |-> FALSE,
     remote |-> "buildings", dataset_url |-> <<>>,
     extent |-> Rect(0, 0, 0, 0), source_crs |-> "EPSG:4326",
     validation_results |-> [has_bbox |-> FALSE], bbox |-> Rect(0, 0, 0, 0),
     schema_result |-> <<>>, select_query |-> <<>>,
     where_clause |-> [pred |-> "none", tests |-> <<>>, ring |-> <<>>]]

\* Worker.__init__, and QThread.start() when the plugin created it
NewWorker(impl, file, accepted, connected) ==
    [NoWorker EXCEPT !.impl = impl, !.pc = "begin", !.output_file = file,
                     !.size_warning_accepted = accepted,
                     !.connected = connected]

\* dataset_url, extent and validation_results of Worker.__init__; remote is
\* the file the engine finds at dataset_url, source_crs the CRS of the map
\* canvas that run() reads
WithRequest(r, d, extent, source_crs, validation_results) ==
    [r EXCEPT !.remote = d, !.dataset_url = Remote(d).url, !.extent = extent,
              !.source_crs = source_crs,
              !.validation_results = validation_results]

\* signal.emit(): the log of the worker, with the flag as it was then
Emitted(r, sig) ==
    [r EXCEPT !.emitted = Append(@, [sig |-> sig, killed |-> r.killed])]

\* the queued delivery to the slots connected in process_download_queue
Post(w, sigs) ==
    events' = IF workers[w].connected
              THEN events \o [i \in 1..Len(sigs) |-> [sig |-> sigs[i], w |-> w]]
              ELSE events

Signals(r) == {r.emitted[i].sig : i \in 1..Len(r.emitted)}

Active(w) == ~crashed /\ workers[w].pc # "none"

\* an engine call raises: the inner except clause is next
Raise(r, kind) == [r EXCEPT !.exc = kind, !.pc = "except"]

-----------------------------------------------------------------------------
(* Worker.run *)

\* plugin 165-167 / utils 91-93: the coordinate transform
Begin(w) ==
    /\ Active(w) /\ workers[w].pc = "begin"
    /\ \E ok \in BOOLEAN,
          bbox \in transform_bbox_to_4326(workers[w].extent,
                                         workers[w].source_crs) :
        workers' = [workers EXCEPT ![w] =
            IF ok THEN [@ EXCEPT !.bbox = bbox,
                                 !.transforms =
                                     IF Transforms(workers[w].source_crs)
                                     THEN 1 ELSE 0,
                                 !.pc = "connect0"]
            ELSE IF @.impl = "plugin"
                 THEN [@ EXCEPT !.exc = "engine", !.pc = "outer_except"]
                 ELSE [@ EXCEPT !.exc = "engine", !.raised = TRUE,
                                !.pc = "done"]]
    /\ UNCHANGED <<events, mainVars>>

\* plugin 169 / utils 95: conn = duckdb.connect(), before the try
Connect0(w) ==
    /\ Active(w) /\ workers[w].pc = "connect0"
    /\ \E ok \in BOOLEAN :
        workers' = [workers EXCEPT ![w] =
            IF ok THEN [@ EXCEPT !.conn = "open", !.opened = @ + 1,
                                 !.pc = "connect"]
            ELSE IF @.impl = "plugin"
                 THEN [@ EXCEPT !.exc = "engine", !.pc = "outer_except"]
                 ELSE [@ EXCEPT !.exc = "engine", !.raised = TRUE,
                                !.pc = "done"]]
    /\ UNCHANGED <<events, mainVars>>

\* plugin 174-177 / utils 100-105: the working connection
Connect(w) ==
    /\ Active(w) /\ workers[w].pc = "connect"
    /\ \E ok \in BOOLEAN, kind \in EngineErrors :
        workers' = [workers EXCEPT ![w] =
            IF ok THEN [@ EXCEPT !.opened = @ + 1,
                                 !.on_file = IsDuckDBFile(workers[w].output_file),
                                 !.pc = "probe"]
            ELSE Raise(@, kind)]
    /\ UNCHANGED <<events, mainVars>>

\* plugin 179-238 / utils 107-154: extensions, schema, table_name, query text
Probe(w) ==
    /\ Active(w) /\ workers[w].pc = "probe"
    /\ \E ok \in BOOLEAN, kind \in EngineErrors :
        workers' = [workers EXCEPT ![w] =
            IF ok
            THEN [@ EXCEPT
                    !.schema_result = Remote(workers[w].remote).schema,
                    !.table_bound = TRUE,
                    !.select_query =
                        SelectQuery(workers[w].impl, workers[w].output_file,
                                    workers[w].dataset_url,
                                    Remote(workers[w].remote).schema),
                    !.where_clause =
                        WhereClause(workers[w].validation_results,
                                    workers[w].bbox),
                    !.pc = "materialize"]
            ELSE Raise(@, kind)]
    /\ UNCHANGED <<events, mainVars>>

\* plugin 241-250 / utils 157-166: CREATE TABLE download_data AS (...)
Materialize(w) ==
    /\ Active(w) /\ workers[w].pc = "materialize"
    /\ \E ok \in BOOLEAN, kind \in EngineErrors, n \in RowCounts :
        workers' = [workers EXCEPT ![w] =
            IF ok THEN [@ EXCEPT !.table = TRUE, !.row_count = n,
                                 !.dest_written = @ \/ workers[w].on_file,
                                 !.written_rows =
                                     IF workers[w].on_file THEN n ELSE @,
                                 !.pc = "count"]
            ELSE Raise(@, kind)]
    /\ UNCHANGED <<events, mainVars>>

\* plugin 253-254 / utils 169-170: SELECT COUNT(*), if row_count == 0
Count(w) ==
    /\ Active(w) /\ workers[w].pc = "count"
    /\ \E ok \in BOOLEAN, kind \in EngineErrors :
        workers' = [workers EXCEPT ![w] =
            IF ~ok THEN Raise(@, kind)
            ELSE IF @.row_count = 0 THEN [@ EXCEPT !.pc = "empty"]
            ELSE [@ EXCEPT !.pc = "dispatch"]]
    /\ UNCHANGED <<events, mainVars>>

\* plugin 255: self.info.emit("No data found ...")
\* utils 171-174: self.error.emit("No data found ..."); return
Empty(w) ==
    /\ Active(w) /\ workers[w].pc = "empty"
    /\ LET r == workers[w]
           sig == IF r.impl = "plugin" THEN "info" ELSE "error"
           to == IF r.impl = "plugin" THEN "empty_finished" ELSE "finally"
       IN /\ workers' = [workers EXCEPT ![w] =
                 [Emitted(r, sig) EXCEPT !.pc = to]]
          /\ Post(w, <<sig>>)
    /\ UNCHANGED mainVars

\* plugin 256-257: self.finished.emit(); return
EmptyFinished(w) ==
    /\ Active(w) /\ workers[w].pc = "empty_finished"
    /\ workers' = [workers EXCEPT ![w] =
           [Emitted(@, "finished") EXCEPT !.pc = "finally"]]
    /\ Post(w, <<"finished">>)
    /\ UNCHANGED mainVars

\* plugin 261-263, 271 / utils 178-180, 189-191: the branch on the extension
Dispatch(w) ==
    /\ Active(w) /\ workers[w].pc = "dispatch"
    /\ workers' = [workers EXCEPT ![w] = [@ EXCEPT !.pc =
           IF FileExtension(workers[w].output_file) = "duckdb" THEN "commit"
           ELSE IF /\ workers[w].impl = "utils"
                   /\ EndsWith(Lower(workers[w].output_file), "geojson")
           THEN "size_check"
           ELSE "format"]]
    /\ UNCHANGED <<events, mainVars>>

\* plugin 265 / utils 183: conn.commit()
Commit(w) ==
    /\ Active(w) /\ workers[w].pc = "commit"
    /\ \E ok \in BOOLEAN, kind \in EngineErrors :
        workers' = [workers EXCEPT ![w] =
            IF ok THEN [@ EXCEPT !.commits = @ + 1, !.pc = "commit_info"]
            ELSE Raise(@, kind)]
    /\ UNCHANGED <<events, mainVars>>

\* plugin 266-270 / utils 184-188: if not self.killed: self.info.emit(...)
CommitInfo(w) ==
    /\ Active(w) /\ workers[w].pc = "commit_info"
    /\ LET r == workers[w]
       IN IF r.killed
          THEN /\ workers' = [workers EXCEPT ![w] = [r EXCEPT !.pc = "post"]]
               /\ UNCHANGED events
          ELSE /\ workers' = [workers EXCEPT ![w] =
                      [Emitted(r, "info") EXCEPT !.pc = "post"]]
               /\ Post(w, <<"info">>)
    /\ UNCHANGED mainVars

\* A size in MB is the pair whole + part / BytesPerMB, so that the quotient
\* of the division is kept exactly.
Zero == [whole |-> 0, part |-> 0]

\* est > n, for a whole number n
Exceeds(est, n) == est.whole > n \/ (est.whole = n /\ est.part > 0)

\* (high * Kilo + low) / (1024 * 1024)
MB(high, low) ==
    LET rest == (high % Kilo) * Kilo + low
    IN [whole |-> (high \div Kilo) + (rest \div BytesPerMB),
        part |-> rest % BytesPerMB]

\* utils 256: sample_size = min(100, row_count)
sample_size(row_count) ==
    IF SampleLimit <= row_count THEN SampleLimit ELSE row_count

\* an estimate that leaves out the commas between the features
EstimateWithoutCommas(row_count, avg_feature_size, raises) ==
    IF raises = "count" THEN Zero
    ELSE IF sample_size(row_count) > 0
    THEN IF raises # "none" THEN Zero
         ELSE IF avg_feature_size # NoAverage
         THEN MB(row_count * (avg_feature_size \div Kilo),
                 row_count * (avg_feature_size % Kilo) + CollectionOverhead)
         ELSE Zero
    ELSE Zero

\* utils 249-300: estimate_file_size for a table of row_count rows whose
\* sampled features average avg_feature_size bytes; raises names the query
\* that raises.  The product row_count * avg_feature_size is formed in the
\* two halves of avg_feature_size (avg = a1 * Kilo + a0), which keeps every
\* intermediate value of the exact division below 2^31.
estimate_file_size(row_count, avg_feature_size, raises) ==
    IF raises = "count" THEN Zero
    ELSE IF sample_size(row_count) > 0
    THEN IF raises # "none" THEN Zero
         ELSE IF avg_feature_size # NoAverage
         THEN MB(row_count * (avg_feature_size \div Kilo),
                 row_count * (avg_feature_size % Kilo) + CollectionOverhead
                     + (row_count - 1))
         ELSE Zero
    ELSE Zero

\* the warning test without its consent half
NeedsSizeWarningIgnoringConsent(est, accepted) ==
    Exceeds(est, SizeWarningThresholdMB)

\* utils 193-195: estimated_size > 4096 and not self.size_warning_accepted
NeedsSizeWarning(est, accepted) ==
    Exceeds(est, SizeWarningThresholdMB) /\ ~accepted

\* utils 192-197: the size estimate of a GeoJSON export and its warning
SizeCheck(w) ==
    /\ Active(w) /\ workers[w].pc = "size_check"
    /\ \E avg \in AvgFeatureSizes, raises \in EstimateFailures :
        LET est == estimate_file_size(workers[w].row_count, avg, raises)
            r == [workers[w] EXCEPT !.estimated_size = est]
        IN IF NeedsSizeWarning(est, r.size_warning_accepted)
           THEN /\ workers' = [workers EXCEPT ![w] =
                       [Emitted(r, "file_size_warning") EXCEPT
                           !.pc = "finally"]]
                /\ Post(w, <<"file_size_warning">>)
           ELSE /\ workers' = [workers EXCEPT ![w] =
                       [r EXCEPT !.pc = "format"]]
                /\ UNCHANGED events
    /\ UNCHANGED mainVars

\* The format_options chain: the driver chosen, "none" when no branch matches.
\* plugin 274-281
PluginFormatOptions(f) ==
    IF FileExtension(f) = "parquet" THEN "parquet"
    ELSE IF EndsWith(f, "gpkg") THEN "GPKG"
    ELSE IF EndsWith(f, "fgb") THEN "FlatGeobuf"
    ELSE "none"

\* utils 202-214
UtilsFormatOptions(f) ==
    IF FileExtension(f) = "parquet" THEN "parquet"
    ELSE IF EndsWith(f, "gpkg") THEN "GPKG"
    ELSE IF EndsWith(f, "fgb") THEN "FlatGeobuf"
    ELSE IF EndsWith(f, "geojson") THEN "GeoJSON"
    ELSE "none"

FormatOptions(impl, f) ==
    IF impl = "plugin" THEN PluginFormatOptions(f) ELSE UtilsFormatOptions(f)

\* The SRS option written in the chosen options text, "none" where the text
\* has no SRS option.
\* plugin 274-279
PluginSRS(f) ==
    IF FileExtension(f) = "parquet" THEN "none"
    ELSE IF EndsWith(f, "gpkg") THEN "none"
    ELSE IF EndsWith(f, "fgb") THEN "EPSG:4326"
    ELSE "none"

\* utils 201-211
UtilsSRS(f) ==
    IF FileExtension(f) = "parquet" THEN "none"
    ELSE IF EndsWith(f, "gpkg") THEN "EPSG:4326"
    ELSE IF EndsWith(f, "fgb") THEN "EPSG:4326"
    ELSE IF EndsWith(f, "geojson") THEN "EPSG:4326"
    ELSE "none"

SRS(impl, f) == IF impl = "plugin" THEN PluginSRS(f) ELSE UtilsSRS(f)

\* plugin 272-284 / utils 199-217: copy_query, format_options.  With no
\* matching branch both emit error("Unsupported file format."); utils then
\* returns, the plugin goes on to print(copy_query + format_options), which
\* raises UnboundLocalError inside the try.
Format(w) ==
    /\ Active(w) /\ workers[w].pc = "format"
    /\ LET r == workers[w]
       IN IF FormatOptions(r.impl, r.output_file) # "none"
          THEN /\ workers' = [workers EXCEPT ![w] =
                      [r EXCEPT !.format_options =
                                    [driver |-> FormatOptions(r.impl,
                                                              r.output_file),
                                     srs |-> SRS(r.impl, r.output_file)],
                                !.pc = "copy"]]
               /\ UNCHANGED events
          ELSE /\ workers' = [workers EXCEPT ![w] =
                      IF r.impl = "plugin"
                      THEN Raise(Emitted(r, "error"), "NameError")
                      ELSE [Emitted(r, "error") EXCEPT !.pc = "finally"]]
               /\ Post(w, <<"error">>)
    /\ UNCHANGED mainVars

\* plugin 285 / utils 218: conn.execute(copy_query + format_options)
Copy(w) ==
    /\ Active(w) /\ workers[w].pc = "copy"
    /\ \E ok \in BOOLEAN, kind \in EngineErrors :
        workers' = [workers EXCEPT ![w] =
            IF ok THEN [@ EXCEPT !.copied = @ + 1,
                                 !.copy_killed = workers[w].killed,
                                 !.dest_written = TRUE,
                                 !.written_rows = workers[w].row_count,
                                 !.pc = "post"]
            ELSE Raise([@ EXCEPT !.copy_killed = workers[w].killed], kind)]
    /\ UNCHANGED <<events, mainVars>>

\* plugin 288-289 / utils 220-221: if self.killed: return
Post1(w) ==
    /\ Active(w) /\ workers[w].pc = "post"
    /\ workers' = [workers EXCEPT ![w] = [@ EXCEPT !.pc =
           IF workers[w].killed THEN "finally" ELSE "post2"]]
    /\ UNCHANGED <<events, mainVars>>

\* plugin 291-298 / utils 223-230: if not self.killed: info or load_layer
Post2(w) ==
    /\ Active(w) /\ workers[w].pc = "post2"
    /\ LET r == workers[w]
           sig == IF IsDuckDBFile(r.output_file) THEN "info" ELSE "load_layer"
       IN IF r.killed
          THEN /\ workers' = [workers EXCEPT ![w] =
                      [r EXCEPT !.pc = "finally"]]
               /\ UNCHANGED events
          ELSE /\ workers' = [workers EXCEPT ![w] =
                      [Emitted(r, sig) EXCEPT !.pc = "emit_finished"]]
               /\ Post(w, <<sig>>)
    /\ UNCHANGED mainVars

\* plugin 299 / utils 231: self.finished.emit()
EmitFinished(w) ==
    /\ Active(w) /\ workers[w].pc = "emit_finished"
    /\ workers' = [workers EXCEPT ![w] =
           [Emitted(@, "finished") EXCEPT !.pc = "finally"]]
    /\ Post(w, <<"finished">>)
    /\ UNCHANGED mainVars

\* The signals of the inner except clause.
\* plugin 301-309
PluginExceptSignals(r) ==
    IF r.killed THEN <<>>
    ELSE IF r.exc = "nodata" THEN <<"info", "finished">>
    ELSE <<"error">>

\* utils 233-235
UtilsExceptSignals(r) == IF r.killed THEN <<>> ELSE <<"error">>

ExceptSignals(r) ==
    IF r.impl = "plugin" THEN PluginExceptSignals(r) ELSE UtilsExceptSignals(r)

RECURSIVE EmittedAll(_, _)
EmittedAll(r, sigs) ==
    IF sigs = <<>> THEN r ELSE EmittedAll(Emitted(r, Head(sigs)), Tail(sigs))

\* plugin 301-309 / utils 233-235: except Exception as e
Except(w) ==
    /\ Active(w) /\ workers[w].pc = "except"
    /\ LET r == workers[w]
           sigs == ExceptSignals(r)
       IN /\ workers' = [workers EXCEPT ![w] =
                 [EmittedAll(r, sigs) EXCEPT !.pc = "finally"]]
          /\ Post(w, sigs)
    /\ UNCHANGED mainVars

\* a cleanup that is skipped once an exception was raised
DropsTableOnSuccessOnly(r) ==
    ~IsDuckDBFile(r.output_file) /\ r.table_bound /\ r.exc = "none"

\* Whether the finally clause issues DROP TABLE IF EXISTS download_data: not
\* for a .duckdb destination, and not when table_name was never assigned (the
\* NameError of the f-string is swallowed by the bare except).
\* plugin 311-315 / utils 237-243
DropsTable(r) == ~IsDuckDBFile(r.output_file) /\ r.table_bound

\* plugin 310-315 / utils 236-243: finally, the temporary table
FinallyDrop(w) ==
    /\ Active(w) /\ workers[w].pc = "finally"
    /\ workers' = [workers EXCEPT ![w] =
           IF DropsTable(@)
           THEN [@ EXCEPT !.table = FALSE, !.dropped = TRUE, !.pc = "close"]
           ELSE [@ EXCEPT !.pc = "close"]]
    /\ UNCHANGED <<events, mainVars>>

\* plugin 316 / utils 244: conn.close()
FinallyClose(w) ==
    /\ Active(w) /\ workers[w].pc = "close"
    /\ workers' = [workers EXCEPT ![w] =
           [@ EXCEPT !.conn = "closed", !.closed = @ + 1,
                     !.closed_with_table = workers[w].table, !.pc = "done"]]
    /\ UNCHANGED <<events, mainVars>>

\* plugin 318-320: the outer except clause
OuterExcept(w) ==
    /\ Active(w) /\ workers[w].pc = "outer_except"
    /\ LET r == workers[w]
       IN IF r.killed
          THEN /\ workers' = [workers EXCEPT ![w] = [r EXCEPT !.pc = "done"]]
               /\ UNCHANGED events
          ELSE /\ workers' = [workers EXCEPT ![w] =
                      [Emitted(r, "error") EXCEPT !.pc = "done"]]
               /\ Post(w, <<"error">>)
    /\ UNCHANGED mainVars

\* plugin 322-323 / utils 246-247: kill(), called from another thread
kill(w) ==
    /\ Active(w) /\ ~workers[w].killed
    /\ workers' = [workers EXCEPT ![w] = [@ EXCEPT !.killed = TRUE]]
    /\ UNCHANGED <<events, mainVars>>

RunStep(w) ==
    \/ Begin(w) \/ Connect0(w) \/ Connect(w) \/ Probe(w) \/ Materialize(w)
    \/ Count(w) \/ Empty(w) \/ EmptyFinished(w) \/ Dispatch(w) \/ Commit(w)
    \/ CommitInfo(w) \/ Format(w) \/ Copy(w) \/ Post1(w) \/ Post2(w)
    \/ EmitFinished(w) \/ Except(w) \/ FinallyDrop(w) \/ FinallyClose(w)
    \/ OuterExcept(w)

-----------------------------------------------------------------------------
(* One Worker of either implementation, run on its own (no slot connected), *)
(* with kill() arriving at any moment.                                      *)

\* no ValidationWorker constructed
NoValidationWorker ==
    [impl |-> "plugin", pc |-> "none", remote |-> "buildings",
     dataset_url |-> <<>>, conn |-> "unbound", schema_queries |-> 0,
     metadata_queries |-> 0, parses |-> 0, parse_failures |-> 0, i |-> 0,
     has_bbox |-> FALSE, bbox_column |-> None, emitted |-> <<>>,
     exc |-> FALSE, raised |-> FALSE]

DownloadIdle ==
    /\ events = <<>>
    /\ worker = 0 /\ worker_thread = 0
    /\ progress_open = FALSE
    /\ main = [pc |-> "idle", cont |-> <<>>]
    /\ closure = [w \in Ids |->
                     [rest |-> <<>>, fired |-> FALSE, cancelled |-> FALSE]]
    /\ runs = 0
    /\ reserved = 0
    /\ cancelled = FALSE
    /\ crashed = FALSE

\* no call of estimate_file_size on its own
NoEstimate ==
    [pc |-> "none", row_count |-> 0, avg_feature_size |-> NoAverage,
     raises |-> "none", sample_size |-> -1,
     result |-> [whole |-> -1, part |-> 0]]

\* no DataSourceDialog constructed
NoDialog ==
    [pc |-> "none", radio |-> "custom", url_input |-> <<>>,
     overture_checkboxes |-> {}, base_subtype_checkboxes |-> {},
     sourcecoop_combo |-> 7, other_combo |-> 14,
     has_selected_urls |-> FALSE, selected_urls |-> <<>>,
     warning |-> "none"]

MainIdle ==
    /\ DownloadIdle
    /\ validation = NoValidationWorker
    /\ estimate = NoEstimate
    /\ dialog = NoDialog

\* The remote files a Worker run on its own is pointed at.
WorkerRemotes == {"buildings", "addresses", "tags", "extract"}

InitWorker ==
    /\ \E impl \in Impls, f \in Files, acc \in BOOLEAN, d \in WorkerRemotes,
          extent \in Rectangles, source_crs \in CRSs,
          validation_results \in ValidationResults :
        /\ impl = "plugin" => ~acc
        /\ workers = [w \in Ids |->
              IF w = 1
              THEN WithRequest(NewWorker(impl, f, acc, FALSE), d, extent,
                               source_crs, validation_results)
              ELSE NoWorker]
    /\ MainIdle

NextWorker == RunStep(1) \/ SizeCheck(1) \/ kill(1)

SpecWorker == InitWorker /\ [][NextWorker]_vars

-----------------------------------------------------------------------------
(* estimate_file_size called on its own, on tables of any size. *)

\* Row counts of the table handed to estimate_file_size.
EstimateRowCounts == {0, 1, 99, 100, 101, 10000}

\* utils 249-300: one call, from its first query to its return
estimate_file_size_call ==
    /\ estimate.pc = "called"
    /\ estimate' = [estimate EXCEPT
           !.sample_size = IF estimate.raises = "count" THEN -1
                           ELSE sample_size(estimate.row_count),
           !.result = estimate_file_size(estimate.row_count,
                                         estimate.avg_feature_size,
                                         estimate.raises),
           !.pc = "returned"]
    /\ UNCHANGED <<workers, events, worker, worker_thread, progress_open,
                   main, closure, runs, reserved, cancelled, crashed,
                   validation, dialog>>

InitEstimate ==
    /\ \E n \in EstimateRowCounts, avg \in AvgFeatureSizes,
          raises \in EstimateFailures :
        estimate = [NoEstimate EXCEPT !.pc = "called", !.row_count = n,
                                      !.avg_feature_size = avg,
                                      !.raises = raises]
    /\ workers = [w \in Ids |-> NoWorker]
    /\ DownloadIdle
    /\ validation = NoValidationWorker
    /\ dialog = NoDialog

SpecEstimate == InitEstimate /\ [][estimate_file_size_call]_vars

-----------------------------------------------------------------------------
(* DataSourceDialog (plugin 441-706): the four radio buttons, the widgets  *)
(* get_urls reads, and the OK and Cancel buttons.                          *)

\* The radio buttons; they share a parent, so exactly one is checked.
Radios == {"overture", "sourcecoop", "other", "custom"}

\* Texts the user types into url_input.
UrlInputs ==
    {<<>>, <<" ">>,
     <<"https://", "example.org/a.parquet">>,
     <<" ", "https://", "example.org/a.parquet", " ">>,
     <<"http://", "example.org/a.parquet">>,
     <<"s3://", "bucket/a.parquet">>,
     <<"hf://", "datasets/a.parquet">>,
     <<"file://", "/tmp/a.parquet">>,
     <<"ftp://", "example.org/a.parquet">>,
     <<"HTTPS://", "example.org/a.parquet">>,
     <<"/tmp/a.parquet">>,
     <<"see ", "https://", "example.org/a.parquet">>}

\* str.strip(): the text from its first to its last piece that is no blank
Strip(text) ==
    LET kept == {i \in 1..Len(text) : text[i] # " "}
    IN IF kept = {} THEN <<>>
       ELSE SubSeq(text, CHOOSE i \in kept : \A j \in kept : i <= j,
                         CHOOSE i \in kept : \A j \in kept : j <= i)

\* str.startswith(prefix), the prefix being one piece
StartsWith(text, prefix) == text # <<>> /\ Head(text) = prefix

\* a scheme test that lets every text through
StartsWithAnyText(url) == TRUE

\* plugin 660-661: the five startswith tests
StartsWithScheme(url) ==
    \/ StartsWith(url, "http://") \/ StartsWith(url, "https://")
    \/ StartsWith(url, "s3://") \/ StartsWith(url, "file://")
    \/ StartsWith(url, "hf://")

\* plugin 576-591: the keys of overture_checkboxes in insertion order, base
\* last, each with the position of its dataset in the catalogue
OvertureCheckboxes ==
    <<[theme |-> "buildings", at |-> 1], [theme |-> "places", at |-> 2],
      [theme |-> "transportation", at |-> 3],
      [theme |-> "addresses", at |-> 4], [theme |-> "divisions", at |-> 6],
      [theme |-> "base", at |-> 5]>>

\* The theme checkboxes the user toggles.
DialogThemes == {"places", "addresses", "base"}

\* plugin 611-615: keys of base_subtype_checkboxes the user toggles, in order
BaseSubtypes == <<"land", "water">>

\* The combo items the user picks, by the position of their dataset.
SourceCoopItems == {7, 10, 13}

\* theme.rstrip('s')
RStripS(theme) ==
    CASE theme = "buildings" -> "building"
      [] theme = "places" -> "place"
      [] OTHER -> theme

\* plugin 679-693: type_str
type_str(theme) ==
    CASE theme = "transportation" -> "segment"
      [] theme = "divisions" -> "division_area"
      [] theme = "addresses" -> "*"
      [] OTHER -> RStripS(theme)

\* plugin 686-690: one URL per checked base subtype
RECURSIVE base_urls(_, _, _)
base_urls(d, dataset, k) ==
    IF k > Len(BaseSubtypes) THEN <<>>
    ELSE (IF BaseSubtypes[k] \in d.base_subtype_checkboxes
          THEN <<format(dataset.url_template, BaseSubtypes[k])>>
          ELSE <<>>) \o base_urls(d, dataset, k + 1)

\* plugin 675-695: the loop over overture_checkboxes
RECURSIVE overture_urls(_, _)
overture_urls(d, i) ==
    IF i > Len(OvertureCheckboxes) THEN <<>>
    ELSE LET theme == OvertureCheckboxes[i].theme
             dataset == PRESET_DATASETS[OvertureCheckboxes[i].at]
         IN (IF theme \notin d.overture_checkboxes THEN <<>>
             ELSE IF theme = "base" THEN base_urls(d, dataset, 1)
             ELSE <<format(dataset.url_template, type_str(theme))>>)
            \o overture_urls(d, i + 1)

\* plugin 671-706: get_urls
get_urls(d) ==
    IF d.radio = "custom" THEN <<Strip(d.url_input)>>
    ELSE IF d.radio = "overture" THEN overture_urls(d, 1)
    ELSE IF d.radio = "sourcecoop"
    THEN <<PRESET_DATASETS[d.sourcecoop_combo].url>>
    ELSE IF d.radio = "other" THEN <<PRESET_DATASETS[d.other_combo].url>>
    ELSE <<>>

dialogOthers == <<workers, events, worker, worker_thread, progress_open, main,
                  closure, runs, reserved, cancelled, crashed, validation,
                  estimate>>

\* QRadioButton.setChecked(True), by the user or by run() (plugin 788)
setChecked(radio) ==
    /\ dialog.pc = "open" /\ dialog.radio # radio
    /\ dialog' = [dialog EXCEPT !.radio = radio]
    /\ UNCHANGED dialogOthers

\* the user edits url_input
setText(text) ==
    /\ dialog.pc = "open" /\ dialog.url_input # text
    /\ dialog' = [dialog EXCEPT !.url_input = text]
    /\ UNCHANGED dialogOthers

\* the user toggles a theme checkbox
toggle_theme(theme) ==
    /\ dialog.pc = "open"
    /\ dialog' = [dialog EXCEPT !.overture_checkboxes =
           IF theme \in @ THEN @ \ {theme} ELSE @ \cup {theme}]
    /\ UNCHANGED dialogOthers

\* the user toggles a base subtype checkbox
toggle_subtype(subtype) ==
    /\ dialog.pc = "open"
    /\ dialog' = [dialog EXCEPT !.base_subtype_checkboxes =
           IF subtype \in @ THEN @ \ {subtype} ELSE @ \cup {subtype}]
    /\ UNCHANGED dialogOthers

\* the user picks an item of sourcecoop_combo
setCurrentIndex(item) ==
    /\ dialog.pc = "open" /\ dialog.sourcecoop_combo # item
    /\ dialog' = [dialog EXCEPT !.sourcecoop_combo = item]
    /\ UNCHANGED dialogOthers

\* plugin 654-655 / 668-669: self.selected_urls = urls; self.accept()
Accepted(d, urls) ==
    [d EXCEPT !.has_selected_urls = TRUE, !.selected_urls = urls,
              !.pc = "accepted"]

\* plugin 645-669: validate_and_accept, the slot of the OK button
validate_and_accept ==
    /\ dialog.pc = "open"
    /\ LET urls == get_urls(dialog)
       IN dialog' =
            IF urls = <<>> THEN [dialog EXCEPT !.warning = "select"]
            ELSE IF dialog.radio = "overture" THEN Accepted(dialog, urls)
            ELSE IF /\ dialog.radio = "custom"
                    /\ \E i \in 1..Len(urls) : ~StartsWithScheme(urls[i])
            THEN [dialog EXCEPT !.warning = "scheme"]
            ELSE Accepted(dialog, urls)
    /\ UNCHANGED dialogOthers

\* plugin 559: the Cancel button, QDialog.reject
reject ==
    /\ dialog.pc = "open"
    /\ dialog' = [dialog EXCEPT !.pc = "rejected"]
    /\ UNCHANGED dialogOthers

\* DataSourceDialog.__init__: custom_radio checked (plugin 562), no
\* selected_urls attribute
InitDialog ==
    /\ dialog = [NoDialog EXCEPT !.pc = "open"]
    /\ workers = [w \in Ids |-> NoWorker]
    /\ DownloadIdle
    /\ validation = NoValidationWorker
    /\ estimate = NoEstimate

NextDialog ==
    \/ \E radio \in Radios : setChecked(radio)
    \/ \E text \in UrlInputs : setText(text)
    \/ \E theme \in DialogThemes : toggle_theme(theme)
    \/ \E k \in 1..Len(BaseSubtypes) : toggle_subtype(BaseSubtypes[k])
    \/ \E item \in SourceCoopItems : setCurrentIndex(item)
    \/ validate_and_accept
    \/ reject

SpecDialog == InitDialog /\ [][NextDialog]_vars

-----------------------------------------------------------------------------
(***************************************************************************)
(* ValidationWorker (plugin 325-439, utils 325-462).  The two classes      *)
(* differ in where the catalogue comes from: the plugin reads the module   *)
(* constant PRESET_DATASETS, utils loads data/presets.json in __init__;    *)
(* that file is taken to hold the same catalogue.  The DROP TABLE IF       *)
(* EXISTS of check_bbox_metadata's finally clause is taken to succeed.     *)
(***************************************************************************)

\* ValidationWorker.__init__
NewValidationWorker(impl, d) ==
    [NoValidationWorker EXCEPT !.impl = impl, !.pc = "connect", !.remote = d,
                               !.dataset_url = Remote(d).url]

\* finished.emit(success, message, validation_results), needs_bbox_warning.emit()
VEmitted(v, sig, success) ==
    [v EXCEPT !.emitted = Append(@,
        [sig |-> sig, success |-> success,
         has_bbox |-> success /\ v.has_bbox,
         bbox_column |-> IF success THEN v.bbox_column ELSE None])]

\* plugin 384 / utils 394: conn = duckdb.connect()
VConnect ==
    /\ validation.pc = "connect"
    /\ \E ok \in BOOLEAN :
        validation' = IF ok
                      THEN [validation EXCEPT !.conn = "open", !.pc = "load"]
                      ELSE [validation EXCEPT !.exc = TRUE, !.pc = "except"]
    /\ UNCHANGED downloadVars

\* plugin 385-388 / utils 395-398: INSTALL and LOAD spatial, httpfs
VLoad ==
    /\ validation.pc = "load"
    /\ \E ok \in BOOLEAN :
        validation' = IF ok
                      THEN [validation EXCEPT !.pc = "needs"]
                      ELSE [validation EXCEPT !.exc = TRUE, !.pc = "except"]
    /\ UNCHANGED downloadVars

\* plugin 390-392 / utils 400-406: the short cut of a trusted preset
VNeedsValidation ==
    /\ validation.pc = "needs"
    /\ validation' =
        IF ~needs_validation(validation.dataset_url)
        THEN [VEmitted([validation EXCEPT !.has_bbox = TRUE,
                                          !.bbox_column = "bbox"],
                       "finished", TRUE) EXCEPT !.pc = "finally"]
        ELSE [validation EXCEPT !.pc = "schema"]
    /\ UNCHANGED downloadVars

\* a detector that overlooks the schema
HasBboxColumnNever(schema_result) == FALSE

\* plugin 406 / utils 420-423: a column named bbox, whatever its letter case,
\* of a type whose text holds "struct"
HasBboxColumn(schema_result) ==
    \E k \in 1..Len(schema_result) :
        /\ LowerText(schema_result[k].col_name) = <<"bbox">>
        /\ Contains(LowerText(schema_result[k].col_type), <<"struct">>)

\* plugin 395-409 / utils 409-426: the schema query and the bbox column test
VSchema ==
    /\ validation.pc = "schema"
    /\ \E ok \in BOOLEAN :
        validation' =
            IF ~ok THEN [validation EXCEPT !.schema_queries = @ + 1,
                                           !.exc = TRUE, !.pc = "except"]
            ELSE IF HasBboxColumn(Remote(validation.remote).schema)
            THEN [validation EXCEPT !.schema_queries = @ + 1,
                                    !.has_bbox = TRUE, !.bbox_column = "bbox",
                                    !.pc = "report"]
            ELSE [validation EXCEPT !.schema_queries = @ + 1,
                                    !.pc = "metadata"]
    /\ UNCHANGED downloadVars

\* plugin 339-340 / utils 344-347: check_bbox_metadata, the metadata query
check_bbox_metadata ==
    /\ validation.pc = "metadata"
    /\ \E ok \in BOOLEAN :
        validation' =
            IF ok THEN [validation EXCEPT !.metadata_queries = @ + 1,
                                          !.i = 1, !.pc = "entry"]
            ELSE [validation EXCEPT !.metadata_queries = @ + 1,
                                    !.exc = TRUE, !.pc = "except"]
    /\ UNCHANGED downloadVars

\* plugin 345-354 / utils 352-363: value.decode(), INSTALL/LOAD json and
\* CREATE TEMP TABLE ... SELECT '{decoded_value}' all went through
PasteSucceeds(value, json_ok) == value.decodes /\ json_ok /\ ~value.quote

\* a parse failure that reaches run()
PropagateParseError(attempt, i) ==
    [attempt EXCEPT !.parse_failures = @ + 1, !.exc = TRUE, !.pc = "except"]

\* plugin 371-378 / utils 380-388: except Exception, finally DROP TABLE, and
\* the loop goes on
SwallowParseError(attempt, i) ==
    [attempt EXCEPT !.parse_failures = @ + 1, !.i = i + 1]

\* plugin 342-379, 412-414 / utils 349-389, 429-431: one turn of the loop
\* over metadata_results, or its end
check_bbox_metadata_entry ==
    /\ validation.pc = "entry"
    /\ LET kv == Remote(validation.remote).kv
           i == validation.i
       IN IF i > Len(kv)
          THEN validation' = [validation EXCEPT !.pc = "report"]
          ELSE IF kv[i].key # "geo"
          THEN validation' = [validation EXCEPT !.i = i + 1]
          ELSE \E json_ok \in BOOLEAN :
              LET value == kv[i].value
                  attempt == [validation EXCEPT !.parses = @ + 1]
                  failed == SwallowParseError(attempt, i)
              IN validation' =
                  IF ~PasteSucceeds(value, json_ok) \/ ~value.well_formed
                  THEN failed
                  ELSE LET result == JsonExtract(value.doc, BboxColumnPath)
                       IN IF result.t = "null"
                          THEN [attempt EXCEPT !.i = i + 1]
                          ELSE LET bbox_col == StripQuotes(JsonText(result))
                               IN IF bbox_col # ""
                                  THEN [attempt EXCEPT
                                           !.has_bbox = TRUE,
                                           !.bbox_column = bbox_col,
                                           !.pc = "report"]
                                  ELSE [attempt EXCEPT !.pc = "report"]
    /\ UNCHANGED downloadVars

\* plugin 416-421 / utils 433-438: needs_bbox_warning or finished(True, ...)
VReport ==
    /\ validation.pc = "report"
    /\ validation' =
        IF ~validation.has_bbox
        THEN [VEmitted(validation, "needs_bbox_warning", FALSE) EXCEPT
                 !.pc = "finally"]
        ELSE [VEmitted(validation, "finished", TRUE) EXCEPT !.pc = "finally"]
    /\ UNCHANGED downloadVars

\* plugin 423-424 / utils 440-441: finished(False, "Error validating ...", {})
VExcept ==
    /\ validation.pc = "except"
    /\ validation' = [VEmitted(validation, "finished", FALSE) EXCEPT
                         !.pc = "finally"]
    /\ UNCHANGED downloadVars

\* a cleanup that leaves the connection as it is
CloseSkipped(v) == [v EXCEPT !.pc = "done"]

\* plugin 426 / utils 443: conn.close()
Close(v) == [v EXCEPT !.conn = "closed", !.pc = "done"]

\* plugin 425-426 / utils 442-443: conn.close(); conn is unbound when
\* duckdb.connect() raised, and the NameError leaves run()
VFinally ==
    /\ validation.pc = "finally"
    /\ validation' = IF validation.conn = "unbound"
                     THEN [validation EXCEPT !.raised = TRUE, !.pc = "done"]
                     ELSE Close(validation)
    /\ UNCHANGED downloadVars

InitValidation ==
    /\ \E impl \in Impls, d \in Remotes :
        validation = NewValidationWorker(impl, d)
    /\ workers = [w \in Ids |-> NoWorker]
    /\ DownloadIdle
    /\ estimate = NoEstimate
    /\ dialog = NoDialog

NextValidation ==
    \/ VConnect \/ VLoad \/ VNeedsValidation \/ VSchema \/ check_bbox_metadata
    \/ check_bbox_metadata_entry \/ VReport \/ VExcept \/ VFinally

SpecValidation == InitValidation /\ [][NextValidation]_vars

-----------------------------------------------------------------------------
(* QgisPluginGeoParquet: the main thread. *)

\* Output files the user gives in the save dialogs of run().
QueueFiles == {"parquet", "duckdb"}

\* Datasets the user selects in the source dialog of run(): a trusted
\* preset, and a custom URL whose file has no bbox column.
QueueRemotes == {"buildings", "tags"}

\* download_queue of run(): one (url, output_file) per selected dataset
Queues == UNION {[1..n -> QueueRemotes \X QueueFiles] : n \in 1..MaxQueue}

\* The map canvas in the behaviours of Spec: its extent and its CRS.
CanvasExtent == Rect(0, 0, 10, 10)
CanvasCrs == "EPSG:4326"

NewId == Cardinality({w \in Ids : workers[w].pc # "none"}) + 1

\* a Worker whose run() has executed its first statement and not returned
Running(w) == workers[w].pc \notin {"none", "begin", "done"}

\* 850-886: process_download_queue(download_queue, extent), queue not empty.
\* Assigning self.worker_thread drops the last reference to the QThread it
\* held (old_thread), which cleanup_thread never stopped: the toolkit either
\* aborts the process or leaves that thread running.
process_download_queue(download_queue, old_thread) ==
    /\ NewId \in Ids
    /\ \E abort \in (IF old_thread # 0 THEN BOOLEAN ELSE {FALSE}) :
        IF abort
        THEN /\ crashed' = TRUE
             /\ UNCHANGED <<workers, worker, worker_thread, closure,
                            progress_open>>
        ELSE /\ workers' = [workers EXCEPT ![NewId] =
                    WithRequest(
                        NewWorker("plugin", Head(download_queue)[2], FALSE,
                                  TRUE),
                        Head(download_queue)[1], CanvasExtent, CanvasCrs,
                        [has_bbox |-> TRUE, bbox_column |-> "bbox"])]
             /\ worker' = NewId
             /\ worker_thread' = NewId
             /\ closure' = [closure EXCEPT ![NewId] =
                    [rest |-> Tail(download_queue), fired |-> FALSE,
                     cancelled |-> FALSE]]
             /\ progress_open' = TRUE
             /\ UNCHANGED crashed

\* 786-848: run(): both dialogs confirmed, then process_download_queue
run ==
    /\ ~crashed /\ main.pc = "idle"
    /\ \E q \in Queues :
        /\ runs < MaxRuns
        /\ reserved + Len(q) <= MaxWorkers
        /\ runs' = runs + 1
        /\ reserved' = reserved + Len(q)
        /\ process_download_queue(q, worker_thread)
    /\ UNCHANGED <<events, main, cancelled, validation,
                   estimate, dialog>>

\* 909-912: cleanup_thread up to worker_thread.wait(): kill() and quit()
cleanup_thread(cont) ==
    /\ workers' = IF worker_thread # 0 /\ worker # 0
                  THEN [workers EXCEPT ![worker] = [@ EXCEPT !.killed = TRUE]]
                  ELSE workers
    /\ main' = [pc |-> "wait", cont |-> cont]

\* The slots connected in process_download_queue (876-882) run in the main
\* thread, one queued signal at a time, oldest first.
Delivered(sig) ==
    /\ ~crashed /\ main.pc = "idle"
    /\ events # <<>> /\ Head(events).sig = sig

\* 895-897: handle_error(message)
handle_error ==
    /\ Delivered("error")
    /\ events' = Tail(events)
    /\ progress_open' = FALSE
    /\ UNCHANGED <<workers, worker, worker_thread, main, closure, runs,
                   reserved, cancelled, crashed, validation,
                   estimate, dialog>>

\* 962-964: show_info(message)
show_info ==
    /\ Delivered("info")
    /\ events' = Tail(events)
    /\ UNCHANGED <<workers, mainVars>>

\* 919-960: load_layer(output_file)
load_layer ==
    /\ Delivered("load_layer")
    /\ events' = Tail(events)
    /\ UNCHANGED <<workers, mainVars>>

\* 880, 888-890: the lambda connected to finished calls
\* handle_download_complete(remaining_queue, extent), here up to the wait()
\* of cleanup_thread
handle_download_complete ==
    /\ Delivered("finished")
    /\ events' = Tail(events)
    /\ closure' = [closure EXCEPT ![Head(events).w] = [@ EXCEPT !.fired = TRUE]]
    /\ cleanup_thread(closure[Head(events).w].rest)
    /\ UNCHANGED <<worker, worker_thread, progress_open, runs, reserved,
                   cancelled, crashed, validation,
                   estimate, dialog>>

\* 903-912: cancel_download, from the Cancel button of the progress dialog
cancel_download ==
    /\ ~crashed /\ main.pc = "idle" /\ progress_open
    /\ cancelled' = TRUE
    /\ closure' = IF worker # 0
                  THEN [closure EXCEPT ![worker] = [@ EXCEPT !.cancelled = TRUE]]
                  ELSE closure
    /\ cleanup_thread(<<>>)
    /\ UNCHANGED <<events, worker, worker_thread, progress_open,
                   runs, reserved, crashed, validation,
                   estimate, dialog>>

\* 913-917: cleanup_thread from the return of worker_thread.wait(), which is
\* when the run() of that thread's worker has returned; then 891-893, the
\* next download of handle_download_complete.
cleanup_thread_wait ==
    /\ ~crashed /\ main.pc = "wait"
    /\ worker_thread # 0 => workers[worker_thread].pc = "done"
    /\ main' = [pc |-> "idle", cont |-> <<>>]
    /\ IF main.cont = <<>>
       THEN /\ worker' = 0
            /\ worker_thread' = 0
            /\ progress_open' = FALSE
            /\ UNCHANGED <<workers, closure, crashed>>
       ELSE process_download_queue(main.cont, 0)
    /\ UNCHANGED <<events, runs, reserved, cancelled, validation,
                   estimate, dialog>>

Init ==
    /\ workers = [w \in Ids |-> NoWorker]
    /\ MainIdle

Next ==
    \/ run
    \/ handle_error
    \/ show_info
    \/ load_layer
    \/ handle_download_complete
    \/ cancel_download
    \/ cleanup_thread_wait
    \/ \E w \in Ids : RunStep(w)

Spec == Init /\ [][Next]_vars

-----------------------------------------------------------------------------
(* Properties of one Worker.run, checked under SpecWorker. *)

Returned(w) == workers[w].pc = "done"

\* no duckdb.connect or conn.execute raised, nor the transform
NoEngineFailure(r) == r.exc \notin EngineErrors /\ ~r.raised

\* C3: once kill() has been called on a Worker, it emits no further error
\* signal and no further info signal: no error or info emission of any worker
\* was made with the killed flag already set.
C3_NoErrorInfoAfterKill ==
    \A w \in Ids : \A i \in 1..Len(workers[w].emitted) :
        workers[w].emitted[i].sig \in {"error", "info"}
            => ~workers[w].emitted[i].killed

\* C4: when run has returned after a connection was opened, the working
\* connection is closed, and for a destination other than .duckdb the table
\* download_data no longer existed when it was closed: it was dropped first
\* whenever it had been created.
C4_ConnectionClosedTableDropped ==
    \A w \in Ids :
        (Returned(w) /\ workers[w].opened > 0) =>
            /\ workers[w].conn = "closed"
            /\ ~IsDuckDBFile(workers[w].output_file) =>
                  /\ ~workers[w].closed_with_table
                  /\ ~workers[w].table
                  /\ workers[w].row_count >= 0 => workers[w].dropped

\* a run whose export statement raised, on a destination other than .duckdb,
\* returned with the table dropped and the connection closed
C4_Witness ==
    \E w \in Ids :
        /\ Returned(w)
        /\ ~IsDuckDBFile(workers[w].output_file)
        /\ workers[w].row_count > 0
        /\ workers[w].exc \in EngineErrors
        /\ workers[w].copied = 0
        /\ workers[w].dropped
        /\ workers[w].conn = "closed"

\* C5: when the materialized result has zero rows, run writes nothing to the
\* destination file, whatever the destination format.
C5_NoWriteOnEmptyResult ==
    \A w \in Ids :
        (Returned(w) /\ workers[w].row_count = 0 /\ NoEngineFailure(workers[w]))
            => ~workers[w].dest_written

\* C6: when the materialized result has zero rows, the outcome is reported
\* through info and never through error, and no export statement is executed.
C6_EmptyResultIsInfo ==
    \A w \in Ids :
        (Returned(w) /\ workers[w].row_count = 0 /\ NoEngineFailure(workers[w]))
            => /\ "info" \in Signals(workers[w])
               /\ "error" \notin Signals(workers[w])
               /\ workers[w].copied = 0

\* C7: for a destination whose extension is none of the five formats and a
\* non-empty result, run reports "Unsupported file format." through error,
\* executes no COPY, and emits nothing after that report.
C7_UnsupportedFormatStops ==
    \A w \in Ids :
        (/\ Returned(w)
         /\ Lower(workers[w].output_file) \notin SupportedExtensions
         /\ workers[w].row_count > 0
         /\ NoEngineFailure(workers[w]))
            => /\ workers[w].copied = 0
               /\ Len(workers[w].emitted) = 1
               /\ workers[w].emitted[1].sig = "error"

\* C8: for each of the destinations .parquet, .duckdb, .gpkg, .fgb and
\* .geojson, a run with a non-empty result, no kill, no engine failure and no
\* size warning ends with finished emitted and no error emitted.
C8_FiveFormatsSucceed ==
    \A w \in Ids :
        (/\ Returned(w)
         /\ workers[w].output_file \in SupportedExtensions
         /\ workers[w].row_count > 0
         /\ ~workers[w].killed
         /\ NoEngineFailure(workers[w])
         /\ "file_size_warning" \notin Signals(workers[w]))
            => /\ "finished" \in Signals(workers[w])
               /\ "error" \notin Signals(workers[w])

C10_NoExportAfterKill ==
    \A w \in Ids : workers[w].copied > 0 => ~workers[w].copy_killed


-----------------------------------------------------------------------------
(* Properties of the download queue, checked under Spec. *)

\* C1: at most one download Worker is running at any time.
C1_AtMostOneWorkerRunning ==
    Cardinality({w \in Ids : Running(w)}) <= 1

\* C2: a failure or an empty result of one queue item never leaves the rest
\* of its queue unprocessed: when such a worker has returned, every signal it
\* emitted has been handled, the main thread is idle and nobody cancelled,
\* handle_download_complete has been called for the remaining items.
C2_FailureDoesNotStopQueue ==
    \A w \in Ids :
        (/\ Returned(w)
         /\ "error" \in Signals(workers[w]) \/ workers[w].row_count = 0
         /\ closure[w].rest # <<>>
         /\ events = <<>>
         /\ main.pc = "idle"
         /\ ~cancelled
         /\ ~crashed)
            => closure[w].fired

-----------------------------------------------------------------------------
(* The bbox detector and the plugin. *)

\* C11: every Worker the plugin starts for a dataset that needs validation
\* builds its query after the detector has run on that dataset, and filters
\* by range exactly when the detector found a bbox column.
C11_DetectorRunsBeforeQuery ==
    \A w \in Ids :
        LET r == workers[w]
        IN (/\ r.connected
            /\ r.where_clause.pred # "none"
            /\ needs_validation(r.dataset_url))
           => /\ validation.pc = "done"
              /\ validation.remote = r.remote
              /\ (r.where_clause.pred = "BETWEEN") = validation.has_bbox

\* what run() of the ValidationWorker emitted, in order
VSignals == [k \in 1..Len(validation.emitted) |-> validation.emitted[k].sig]

\* run() returned having met no engine failure outside the parsing of a
\* metadata value
ValidatedWithoutFailure ==
    validation.pc = "done" /\ ~validation.exc /\ ~validation.raised

\* a column named bbox of a structured type
HasStructBbox(schema) ==
    \E k \in 1..Len(schema) :
        /\ schema[k].col_name = <<"bbox">>
        /\ schema[k].col_type \in {STRUCT_BBOX, STRUCT_NAMES}

\* no column named bbox, in any letter case
HasNoBboxNamedColumn(schema) ==
    \A k \in 1..Len(schema) : schema[k].col_name \notin {<<"bbox">>, <<"BBOX">>}

\* C12: with no literal bbox column, when every attempt to parse a "geo"
\* metadata value fails, run() emits needs_bbox_warning and nothing else: it
\* neither raises nor emits finished with success false.
C12_ParseFailureIsNoBbox ==
    (/\ validation.pc = "done"
     /\ ~HasStructBbox(Remote(validation.remote).schema)
     /\ validation.parses > 0
     /\ validation.parse_failures = validation.parses)
    => /\ VSignals = <<"needs_bbox_warning">>
       /\ ~validation.raised
       /\ ~validation.exc

C12_Witness ==
    /\ validation.pc = "done"
    /\ validation.remote \in {"malformed", "undecodable", "quote"}
    /\ validation.parse_failures = 1
    /\ VSignals = <<"needs_bbox_warning">>

\* the presets whose URL, or template up to its placeholder, occurs in url
MatchingPresets(url) ==
    {k \in DOMAIN PRESET_DATASETS :
        LET dataset == PRESET_DATASETS[k]
        IN \/ "url" \in DOMAIN dataset /\ Contains(url, dataset.url)
           \/ /\ "url_template" \in DOMAIN dataset
              /\ Contains(url, SplitBrace0(dataset.url_template))}

\* C13: for a URL that matches a preset whose needs_validation flag is false,
\* run() reports success with has_bbox true and bbox_column "bbox" and issues
\* neither the schema query nor the metadata query; a URL that matches no
\* preset needs validation, and its schema is probed.
C13_TrustedPresetShortCut ==
    LET matching == MatchingPresets(validation.dataset_url)
    IN /\ (/\ ValidatedWithoutFailure
           /\ matching # {}
           /\ \A k \in matching : ~PRESET_DATASETS[k].needs_validation)
          => /\ VSignals = <<"finished">>
             /\ validation.emitted[1].success
             /\ validation.emitted[1].has_bbox
             /\ validation.emitted[1].bbox_column = "bbox"
             /\ validation.schema_queries = 0
             /\ validation.metadata_queries = 0
       /\ (validation.pc # "none" /\ matching = {})
          => /\ needs_validation(validation.dataset_url)
             /\ ValidatedWithoutFailure => validation.schema_queries = 1

C13_Witness ==
    /\ ValidatedWithoutFailure
    /\ validation.remote = "water"
    /\ VSignals = <<"finished">>
    /\ validation.emitted[1].bbox_column = "bbox"
    /\ validation.schema_queries = 0

\* C14: for a dataset that needs validation and whose schema has a column
\* named bbox of a structured type, run() reports bbox_column "bbox" and
\* check_bbox_metadata is never invoked.
C14_LiteralBboxColumn ==
    (/\ ValidatedWithoutFailure
     /\ needs_validation(validation.dataset_url)
     /\ HasStructBbox(Remote(validation.remote).schema))
    => /\ VSignals = <<"finished">>
       /\ validation.emitted[1].success
       /\ validation.emitted[1].bbox_column = "bbox"
       /\ validation.metadata_queries = 0
       /\ validation.parses = 0

C14_Witness ==
    /\ ValidatedWithoutFailure
    /\ validation.remote = "custom_bbox"
    /\ validation.schema_queries = 1
    /\ VSignals = <<"finished">>
    /\ validation.emitted[1].bbox_column = "bbox"

\* the bbox column named by the covering of the primary geometry column of a
\* "geo" document, None when it names none
CoveringColumn(doc) ==
    LET primary == JsonExtract(doc, <<[key |-> "primary_column"]>>)
        c == IF primary.t = "string"
             THEN JsonExtract(doc, <<[key |-> "columns"], [key |-> primary.s],
                                     [key |-> "covering"], [key |-> "bbox"],
                                     [key |-> "xmin"], [index |-> 0]>>)
             ELSE Null
    IN IF c.t = "string" THEN c.s ELSE None

\* C15: for a dataset that needs validation, with no bbox column in its
\* schema and one parseable "geo" value whose covering names column foo,
\* run() reports has_bbox true and bbox_column "foo".
C15_CoveringNamesColumn ==
    LET kv == Remote(validation.remote).kv
    IN (/\ ValidatedWithoutFailure
        /\ needs_validation(validation.dataset_url)
        /\ HasNoBboxNamedColumn(Remote(validation.remote).schema)
        /\ validation.parse_failures = 0
        /\ \E k \in 1..Len(kv) :
             /\ kv[k].key = "geo"
             /\ kv[k].value.decodes /\ kv[k].value.well_formed
             /\ ~kv[k].value.quote
             /\ CoveringColumn(kv[k].value.doc) = "foo")
       => /\ VSignals = <<"finished">>
          /\ validation.emitted[1].has_bbox
          /\ validation.emitted[1].bbox_column = "foo"

-----------------------------------------------------------------------------
(* The query of Worker.run; checked under SpecWorker. *)

\* the worker has built select_query and where_clause
QueryBuilt(r) == r.where_clause.pred # "none"

\* C16: when validation_results names a bbox column c, the WHERE clause is
\* exactly c.xmin BETWEEN the minimum and maximum X of the extent AND c.ymin
\* BETWEEN its minimum and maximum Y; no test reads xmax or ymax.
C16_RangeFilterOnMinima ==
    LET r == workers[1]
        c == Get(r.validation_results, "bbox_column")
    IN (QueryBuilt(r) /\ Truthy(c))
       => /\ r.where_clause.pred = "BETWEEN"
          /\ r.where_clause.tests =
                <<[column |-> c, field |-> "xmin", low |-> r.bbox.xMinimum,
                   high |-> r.bbox.xMaximum],
                  [column |-> c, field |-> "ymin", low |-> r.bbox.yMinimum,
                   high |-> r.bbox.yMaximum]>>
          /\ \A k \in 1..Len(r.where_clause.tests) :
                r.where_clause.tests[k].field \notin {"xmax", "ymax"}
          /\ r.where_clause.ring = <<>>

C16_Witness ==
    LET r == workers[1]
    IN /\ QueryBuilt(r)
       /\ Get(r.validation_results, "bbox_column") = "bbox"
       /\ r.bbox = Rect(0, 0, 10, 10)
       /\ r.where_clause.tests =
             <<[column |-> "bbox", field |-> "xmin", low |-> 0, high |-> 10],
               [column |-> "bbox", field |-> "ymin", low |-> 0, high |-> 10]>>

\* C17: when validation_results carries no bbox column (key absent, None or
\* empty), the WHERE clause is ST_Intersects against a ring of exactly five
\* points, the four corners of the extent and the first corner again, and
\* holds no range test.
C17_FallbackRingIsClosed ==
    LET r == workers[1]
        c == Get(r.validation_results, "bbox_column")
        ring == r.where_clause.ring
    IN (QueryBuilt(r) /\ ~Truthy(c))
       => /\ r.where_clause.pred = "ST_Intersects"
          /\ r.where_clause.tests = <<>>
          /\ Len(ring) = 5
          /\ ring[1] = ring[5]
          /\ {ring[k] : k \in 1..4} =
                {<<x, y>> : x \in {r.bbox.xMinimum, r.bbox.xMaximum},
                            y \in {r.bbox.yMinimum, r.bbox.yMaximum}}

C17_Witness ==
    LET r == workers[1]
    IN /\ QueryBuilt(r)
       /\ "bbox_column" \notin DOMAIN r.validation_results
       /\ r.bbox = Rect(0, 0, 10, 10)
       /\ r.where_clause.ring =
             <<<<0, 0>>, <<10, 0>>, <<10, 10>>, <<0, 10>>, <<0, 0>>>>

\* C18: whenever the export takes the parquet branch of the dispatcher, the
\* materializing query had the SELECT * list.
C18_ParquetSelectsStar ==
    LET r == workers[1]
    IN (r.copied > 0 /\ FormatOptions(r.impl, r.output_file) = "parquet")
       => r.select_query = <<Star>>

\* the coercion the specification asks for a column type
Coercion(col_type) ==
    CASE col_type \in {STRUCT_BBOX, STRUCT_NAMES, STRUCT_LIST, MAP_TAGS} ->
            "TO_JSON"
      [] col_type = VARCHAR_LIST -> "array_to_string"
      [] col_type = UTINYINT -> "CAST AS INTEGER"
      [] OTHER -> ""

\* the SELECT list without the synthetic name column
Columns(select_query) ==
    IF select_query # <<>> /\ Head(select_query) = NamePrimary
    THEN Tail(select_query) ELSE select_query

\* C19: for a target that is not Parquet the SELECT list has one item per
\* schema column, in schema order, under the column's own name: TO_JSON for
\* a struct, a map or a list of structs, array_to_string for a list, a cast
\* to INTEGER for UTINYINT, the bare column otherwise; and the inline
\* builder of the plugin and process_schema_columns agree on the schema.
C19_ColumnCoercions ==
    LET r == workers[1]
        schema == Remote(r.remote).schema
    IN (QueryBuilt(r) /\ Lower(r.output_file) # "parquet")
       => /\ Columns(r.select_query) =
                [k \in 1..Len(schema) |->
                    [fn |-> Coercion(schema[k].col_type),
                     col |-> schema[k].col_name,
                     alias |-> schema[k].col_name]]
          /\ InlineColumns(schema) = process_schema_columns(schema)

C19_Witness ==
    LET r == workers[1]
    IN /\ QueryBuilt(r)
       /\ r.output_file = "gpkg"
       /\ r.remote = "buildings"
       /\ Len(Columns(r.select_query)) = 6
       /\ Columns(r.select_query)[3].fn = "TO_JSON"
       /\ Columns(r.select_query)[4].fn = "CAST AS INTEGER"

\* C20: for a target that is not Parquet, "names"."primary" as name is the
\* first item of the SELECT list if and only if the dataset URL holds
\* "overture" and the schema has a column named names.
C20_NamePrependedIffNamesColumn ==
    LET r == workers[1]
        schema == Remote(r.remote).schema
    IN (QueryBuilt(r) /\ Lower(r.output_file) # "parquet")
       => ((Head(r.select_query) = NamePrimary)
           <=> (/\ Contains(r.dataset_url, <<"overture">>)
                /\ \E k \in 1..Len(schema) :
                      schema[k].col_name = <<"names">>))

-----------------------------------------------------------------------------
(* Claims on the export, the connections and the signals of one run *)

\* the drivers reached through the generic vector driver (FORMAT GDAL)
GDALDrivers == {"GPKG", "FlatGeobuf", "GeoJSON"}

\* C21: every export statement that Worker.run issued through the generic
\* vector driver carries the option SRS 'EPSG:4326', in both
\* implementations.
C21_GDALExportForcesSRS ==
    LET r == workers[1]
    IN (r.copied > 0 /\ r.format_options.driver \in GDALDrivers)
       => r.format_options.srs = "EPSG:4326"


\* C22: a run for a .duckdb destination with a non-empty result, no
\* cancellation and no engine failure opened its working connection on the
\* destination file, committed, executed no COPY, emitted no load_layer,
\* emitted the success note through info and ended on finished.
C22_DuckDBDestination ==
    LET r == workers[1]
    IN (/\ Returned(1)
        /\ Lower(r.output_file) = "duckdb"
        /\ r.row_count > 0
        /\ ~r.killed
        /\ NoEngineFailure(r))
       => /\ r.on_file
          /\ r.dest_written
          /\ r.commits = 1
          /\ r.copied = 0
          /\ "load_layer" \notin Signals(r)
          /\ "info" \in Signals(r)
          /\ r.emitted # <<>>
          /\ r.emitted[Len(r.emitted)].sig = "finished"

C22_Witness ==
    LET r == workers[1]
    IN /\ Returned(1)
       /\ r.output_file = "duckdb"
       /\ r.row_count > 0
       /\ ~r.killed
       /\ NoEngineFailure(r)
       /\ r.commits = 1
       /\ "finished" \in Signals(r)

\* C23: when run has returned it opened exactly one connection at most, and
\* every connection it opened has been closed.
C23_OneConnectionOpenedAndClosed ==
    LET r == workers[1]
    IN Returned(1) => (r.opened <= 1 /\ r.closed = r.opened)


-----------------------------------------------------------------------------
(* estimate_file_size, checked under SpecEstimate. *)

\* C24: a call of estimate_file_size samples min(100, row_count) rows and
\* returns (row_count * average + 50 + (row_count - 1)) / 1048576 MB; it
\* returns 0, and returns, when the table is empty, the average is null or a
\* query raises; for 10000 rows of 200 bytes the estimate is below the
\* threshold of Worker.run's warning test, which is then false.
C24_EstimateFormula ==
    LET e == estimate
        n == e.row_count
        avg == e.avg_feature_size
    IN e.pc = "returned"
       => /\ e.result.whole >= 0
          /\ e.result.part \in 0..(BytesPerMB - 1)
          /\ e.raises # "count" => e.sample_size = IF n < 100 THEN n ELSE 100
          /\ (n = 0 \/ avg = NoAverage \/ e.raises # "none")
                => e.result = [whole |-> 0, part |-> 0]
          /\ (n > 0 /\ avg # NoAverage /\ e.raises = "none")
                => /\ (n <= 101 \/ avg <= 200)
                      => e.result.whole * 1048576 + e.result.part =
                            n * avg + 50 + (n - 1)
                   /\ (n = 10000 /\ avg = 429495)
                      => e.result = [whole |-> 4095, part |-> 1041329]
                   /\ (n = 10000 /\ avg = 429496)
                      => e.result = [whole |-> 4096, part |-> 2753]
          /\ (n = 10000 /\ avg = 200 /\ e.raises = "none")
                => /\ e.result = [whole |-> 1, part |-> 961473]
                   /\ ~NeedsSizeWarning(e.result, FALSE)

\* the call of the claim's example has returned its estimate of 1.9 MB
C24_Witness ==
    /\ estimate.pc = "returned"
    /\ estimate.row_count = 10000
    /\ estimate.avg_feature_size = 200
    /\ estimate.raises = "none"
    /\ estimate.sample_size = 100
    /\ estimate.result.whole = 1


-----------------------------------------------------------------------------
(* transform_bbox_to_4326, checked on the runs of SpecWorker. *)

\* C25: when the source reference system is EPSG:4326 the bbox that
\* transform_bbox_to_4326 returned is the input extent and no coordinate
\* transform was performed; and the function applied again to its result
\* in EPSG:4326 returns that result.
C25_TransformIsIdentityIn4326 ==
    LET r == workers[1]
    IN r.transforms >= 0
       => /\ r.source_crs = "EPSG:4326"
                => (r.bbox = r.extent /\ r.transforms = 0)
          /\ transform_bbox_to_4326(r.bbox, "EPSG:4326") = {r.bbox}

\* a run on a canvas in EPSG:4326 holds its bbox
C25_Witness ==
    LET r == workers[1]
    IN /\ r.transforms = 0
       /\ r.source_crs = "EPSG:4326"
       /\ r.extent = Rect(-5, 2, 3, 2)
       /\ r.bbox = r.extent


-----------------------------------------------------------------------------
(* DataSourceDialog.validate_and_accept, checked under SpecDialog. *)

\* the schemes the specification lists for a custom URL
Schemes == {"http://", "https://", "s3://", "hf://", "file://"}

\* C26: with the custom radio button checked, the dialog is accepted only if
\* the stripped text of url_input starts with one of http://, https://,
\* s3://, hf://, file://, and selected_urls is then that one URL; for any
\* other text, the empty one included, the dialog is not accepted; and
\* selected_urls is set only by an acceptance.
C26_CustomUrlNeedsScheme ==
    LET url == Strip(dialog.url_input)
    IN /\ dialog.has_selected_urls <=> dialog.pc = "accepted"
       /\ (dialog.radio = "custom" /\ dialog.pc = "accepted")
             => /\ url # <<>>
                /\ Head(url) \in Schemes
                /\ dialog.selected_urls = <<url>>
       /\ (/\ dialog.radio = "custom"
           /\ (url = <<>> \/ Head(url) \notin Schemes))
             => (dialog.pc # "accepted" /\ ~dialog.has_selected_urls)

\* a custom URL typed with blanks around it has been accepted
C26_Witness ==
    /\ dialog.pc = "accepted"
    /\ dialog.radio = "custom"
    /\ dialog.url_input = <<" ", "https://", "example.org/a.parquet", " ">>
    /\ dialog.selected_urls = <<<<"https://", "example.org/a.parquet">>>>


-----------------------------------------------------------------------------
(* The outcome signals of one Worker.run, checked under SpecWorker. *)

\* how many emissions of the run were of one of the signals sigs
Emissions(r, sigs) ==
    Cardinality({i \in 1..Len(r.emitted) : r.emitted[i].sig \in sigs})

\* C27: in one run error and info are emitted at most once in total, and
\* error and finished are never both emitted.
C27_OutcomeToldOnce ==
    LET r == workers[1]
    IN /\ Emissions(r, {"error", "info"}) <= 1
       /\ ~({"error", "finished"} \subseteq Signals(r))

\* the signals that tell an outcome
OutcomeSignals == {"finished", "error", "info", "file_size_warning"}

\* C28: a run that was not killed has emitted at least one of finished,
\* error, info and file_size_warning by the time it has ended, by return or
\* by an exception leaving run.
C28_NeverSilent ==
    LET r == workers[1]
    IN (Returned(1) /\ ~r.killed) => Signals(r) \cap OutcomeSignals # {}


-----------------------------------------------------------------------------
(* The signals of ValidationWorker.run, checked under SpecValidation. *)

\* C29: a run of ValidationWorker emits at most one signal, and when it has
\* ended it has emitted exactly one of finished and needs_bbox_warning:
\* finished(False) when an exception was caught, finished(True) with a bbox
\* column when a bbox was found or the preset is trusted, needs_bbox_warning
\* when none was found; and no connection the run opened is left open: it is
\* closed on every path that opened one.
C29_OneValidationSignal ==
    LET v == validation
    IN /\ Len(v.emitted) <= 1
       /\ v.pc = "done"
             => /\ Len(v.emitted) = 1
                /\ v.exc
                      => (v.emitted[1].sig = "finished"
                          /\ ~v.emitted[1].success)
                /\ (~v.exc /\ v.has_bbox)
                      => /\ v.emitted[1].sig = "finished"
                         /\ v.emitted[1].success
                         /\ v.emitted[1].has_bbox
                         /\ v.emitted[1].bbox_column # None
                /\ (~v.exc /\ ~v.has_bbox)
                      => v.emitted[1].sig = "needs_bbox_warning"
                /\ v.conn # "open"
                /\ v.conn = "unbound" => (v.exc /\ v.schema_queries = 0)

\* a run whose schema query raised has reported finished(False) and closed
\* its connection
C29_Witness ==
    /\ validation.pc = "done"
    /\ validation.exc
    /\ validation.conn = "closed"
    /\ Len(validation.emitted) = 1
    /\ validation.emitted[1].sig = "finished"
    /\ ~validation.emitted[1].success


-----------------------------------------------------------------------------
(* Cancelling a download queue, checked under Spec. *)

\* the worker v was started for the first of the items left after worker w
StartedForRest(w, v) ==
    /\ closure[w].rest # <<>>
    /\ closure[w].fired
    /\ v > w
    /\ workers[v].pc # "none"
    /\ workers[v].remote = Head(closure[w].rest)[1]
    /\ workers[v].output_file = Head(closure[w].rest)[2]

\* C30: once the user has cancelled the download of a worker, no worker is
\* started for an item left in that download's queue, in whatever order the
\* cancel and the worker's finished signal arrive; and self.worker and
\* self.worker_thread are None together.
C30_CancelStopsTheQueue ==
    /\ \A w \in Ids :
          closure[w].cancelled => \A v \in Ids : ~StartedForRest(w, v)
    /\ (worker = 0) <=> (worker_thread = 0)

=============================================================================
